---- MODULE Spec2Model ----
(***************************************************************************)
(* The three entry points of hack/python: blinka_blink.py (GPIO toggler),  *)
(* blinka_check.py (USB device prober) and lps25.py (pressure poller).     *)
(* Each run executes exactly one of them.  pc is the source line the run   *)
(* is currently executing (0 once the process has terminated); an action   *)
(* is the completion of that line.  log is the run's trace of externally   *)
(* visible effects: lines printed to stdout and calls into the hardware    *)
(* libraries, in program order.                                            *)
(***************************************************************************)
EXTENDS Integers, Sequences, FiniteSets

VARIABLES script, pc, exitCode, uncaught, raised, log,
          devices, idx, foundDevice, handle,
          led, led_direction, led_value,
          i2c, lps, now, wall

vars == <<script, pc, exitCode, uncaught, raised, log,
          devices, idx, foundDevice, handle,
          led, led_direction, led_value,
          i2c, lps, now, wall>>

checkVars == <<devices, idx, foundDevice, handle>>
blinkVars == <<led, led_direction, led_value>>
lpsVars   == <<i2c, lps, now, wall>>

(***************************************************************************)
(* Bounds of the model.                                                    *)
(***************************************************************************)
MaxDevices == 2     \* longest enumeration result
MaxLabels  == 4     \* phase labels printed by the toggler before the model stops
MaxLines   == 3     \* data lines printed by the poller before the model stops
MaxClock   == 3     \* index of the last wall-clock sample
MaxReading == 1     \* index of the last sensor reading

Scripts == {"blink", "check", "lps"}

Running == -1       \* exitCode while the process is alive

(***************************************************************************)
(* Text helpers.  A printed line is a sequence of tokens; numbers and      *)
(* timestamps are sequences of one-character tokens, formatted the way     *)
(* Python formats them.                                                    *)
(***************************************************************************)
Digits == <<"0", "1", "2", "3", "4", "5", "6", "7", "8", "9">>

Digit(d) == Digits[d + 1]

RECURSIVE Str(_)
\* str(int) for a non-negative int: decimal, no padding
Str(n) == IF n < 10 THEN <<Digit(n)>> ELSE Str(n \div 10) \o <<Digit(n % 10)>>

RECURSIVE ZeroPad(_, _)
\* the zero-padded fixed-width fields of strftime (%m %d %H %M %S %f, and %Y)
ZeroPad(n, width) ==
    IF width = 0 THEN <<>>
    ELSE ZeroPad(n \div 10, width - 1) \o <<Digit(n % 10)>>

\* ASCII code of the characters a timestamp is made of
Ord(c) ==
    CASE c = "-" -> 45
      [] c = "." -> 46
      [] c = ":" -> 58
      [] c = ";" -> 59
      [] c = "T" -> 84
      [] OTHER   -> 48 + (CHOOSE d \in 0..9 : Digit(d) = c)

Event(op, line, args) == [op |-> op, line |-> line, args |-> args]

Stdwrite(line) == Event("print", line, <<>>)

Call(name, args) == Event("call", <<name>>, args)

\* the lines of stdout, in order
Stdout == SelectSeq(log, LAMBDA e : e.op = "print")

(***************************************************************************)
(* Process termination.                                                    *)
(***************************************************************************)
\* raised is the last exception a library call raised
Exception(kind, text) == [kind |-> kind, text |-> text]

NoException == Exception("none", "")

\* sys.exit(code), or falling off the end of the script (code 0)
Exit(code) ==
    /\ pc' = 0
    /\ exitCode' = code
    /\ uncaught' = FALSE

\* an exception nobody catches: the interpreter prints a traceback to stderr
\* and the process ends with status 1
Raise(exc) ==
    /\ raised' = exc
    /\ pc' = 0
    /\ exitCode' = 1
    /\ uncaught' = TRUE

Goto(line) ==
    /\ pc' = line
    /\ UNCHANGED <<exitCode, uncaught, raised>>

(***************************************************************************)
(* blinka_check.py                                                         *)
(***************************************************************************)
ADAFRUIT_VENDOR_ID == 1240      \* 0x04D8

OPEN_PRODUCT_ID == 221          \* 0x00DD

VendorIds == {ADAFRUIT_VENDOR_ID, 1133}

ProductIds == {OPEN_PRODUCT_ID, 234}

DeviceRecords == [vendor_id : VendorIds, product_id : ProductIds]

\* what hid.enumerate() may return
Enumerations == UNION {[1..n -> DeviceRecords] : n \in 0..MaxDevices}

ErrorTexts == {"open failed", "[Errno 13] Permission denied"}

\* what device.open() may do: return, raise OSError(text), or raise an
\* exception that is not an OSError
OpenOutcomes ==
    {NoException}
    \cup {Exception("OSError", text) : text \in ErrorTexts}
    \cup {Exception("ValueError", "not open")}

FoundLine(product_id) ==
    <<"OK: Found Adafruit device with product ID ">> \o Str(product_id) \o <<"!">>

\* mutant: the message leaves the error out
FailedLine_NoText(e) == <<"Failed to open device: ", "">>

FailedLine(e) == <<"Failed to open device: ", e>>

\* l.4 (the ellipsis character of the source is written as three dots)
CheckProbing ==
    /\ script = "check" /\ pc = 4
    /\ log' = Append(log, Stdwrite(<<"Probing for Adafruit USB devices...">>))
    /\ Goto(8)
    /\ UNCHANGED <<script, checkVars, blinkVars, lpsVars>>

\* l.8
CheckInitFound ==
    /\ script = "check" /\ pc = 8
    /\ foundDevice' = FALSE
    /\ Goto(9)
    /\ UNCHANGED <<script, log, devices, idx, handle, blinkVars, lpsVars>>

\* l.9, first evaluation: hid.enumerate() and the first fetch from the result
CheckEnumerate ==
    /\ script = "check" /\ pc = 9
    /\ \E devs \in Enumerations :
          /\ devices' = devs
          /\ idx' = 1
          /\ log' = Append(log, Call("hid.enumerate", <<>>))
          /\ IF Len(devs) >= 1 THEN Goto(10) ELSE Goto(14)
    /\ UNCHANGED <<script, foundDevice, handle, blinkVars, lpsVars>>

\* mutant: the filter compares the product id instead of the vendor id
IsAdafruit_ByProduct(device) == device.product_id = OPEN_PRODUCT_ID

\* the predicate of l.10
IsAdafruit(device) == device.vendor_id = ADAFRUIT_VENDOR_ID

\* mutant: the loop stops at the first match
CheckLoopBody_Break ==
    /\ script = "check" /\ pc = 10
    /\ LET device == devices[idx] IN
          IF IsAdafruit(device)
          THEN /\ log' = Append(log, Stdwrite(FoundLine(device.product_id)))
               /\ foundDevice' = TRUE
               /\ idx' = Len(devices) + 1
               /\ Goto(14)
          ELSE /\ UNCHANGED <<log, foundDevice>>
               /\ idx' = idx + 1
               /\ IF idx < Len(devices) THEN Goto(10) ELSE Goto(14)
    /\ UNCHANGED <<script, devices, handle, blinkVars, lpsVars>>

\* l.10-12, and the fetch of the next record at l.9
CheckLoopBody ==
    /\ script = "check" /\ pc = 10
    /\ LET device == devices[idx] IN
          IF IsAdafruit(device)
          THEN /\ log' = Append(log, Stdwrite(FoundLine(device.product_id)))
               /\ foundDevice' = TRUE
          ELSE UNCHANGED <<log, foundDevice>>
    /\ idx' = idx + 1
    /\ IF idx < Len(devices) THEN Goto(10) ELSE Goto(14)
    /\ UNCHANGED <<script, devices, handle, blinkVars, lpsVars>>

\* l.14-16
CheckNotFound ==
    /\ script = "check" /\ pc = 14
    /\ IF ~foundDevice
       THEN /\ log' = Append(log, Stdwrite(<<"Error: could not find Adafruit device(s).">>))
            /\ Exit(1)
            /\ UNCHANGED raised
       ELSE /\ Goto(18)
            /\ UNCHANGED log
    /\ UNCHANGED <<script, checkVars, blinkVars, lpsVars>>

\* mutant: the open uses the product id of the first enumerated match
OpenProduct_Enumerated == SelectSeq(devices, IsAdafruit)[1].product_id

\* the product id l.20 passes to device.open
OpenProduct == OPEN_PRODUCT_ID

\* mutant: a bare except clause
Caught_All(kind) == TRUE

\* the exception kinds the except clause of l.22 catches
Caught(kind) == kind = "OSError"

\* l.18-24: handle is the state of the hid.device() object
CheckOpen ==
    /\ script = "check" /\ pc = 18
    /\ \E r \in OpenOutcomes :
          LET called == Append(log, Call("device.open", <<ADAFRUIT_VENDOR_ID, OpenProduct>>)) IN
          CASE r = NoException ->
                 /\ handle' = "open"
                 /\ log' = Append(called, Stdwrite(<<"OK: Successfully opened device.">>))
                 /\ Goto(26)
            [] r # NoException /\ Caught(r.kind) ->
                 /\ handle' = "closed"
                 /\ log' = Append(called, Stdwrite(FailedLine(r.text)))
                 /\ raised' = r
                 /\ Exit(1)
            [] OTHER ->
                 /\ handle' = "closed"
                 /\ log' = called
                 /\ Raise(r)
    /\ UNCHANGED <<script, devices, idx, foundDevice, blinkVars, lpsVars>>

\* l.26 and the end of the script
CheckDone ==
    /\ script = "check" /\ pc = 26
    /\ log' = Append(log, Stdwrite(<<"Done.">>))
    /\ Exit(0)
    /\ UNCHANGED raised
    /\ UNCHANGED <<script, checkVars, blinkVars, lpsVars>>

(***************************************************************************)
(* blinka_blink.py                                                         *)
(***************************************************************************)
\* the labels printed so far
Labels == SelectSeq(Stdout, LAMBDA e : e.line \in {<<"on...">>, <<"off...">>})

\* l.10: acquiring the pin may fail, and nothing catches the failure
BlinkAcquire ==
    /\ script = "blink" /\ pc = 10
    /\ log' = Append(log, Call("digitalio.DigitalInOut", <<>>))
    /\ \E ok \in BOOLEAN :
          IF ok THEN /\ led' = TRUE
                     /\ Goto(11)
                ELSE /\ Raise(Exception("ValueError", "pin unavailable"))
                     /\ UNCHANGED led
    /\ UNCHANGED <<script, led_direction, led_value, checkVars, lpsVars>>

\* l.11: switching to output drives the pin low
BlinkDirection ==
    /\ script = "blink" /\ pc = 11
    /\ led_direction' = "OUTPUT"
    /\ led_value' = FALSE
    /\ Goto(14)
    /\ UNCHANGED <<script, log, led, checkVars, lpsVars>>

\* a logic level as the argument of a logged pin write
Level(b) == IF b THEN <<1>> ELSE <<0>>

\* the level l.15 writes
OnLevel == TRUE

\* mutant: l.18 writes True
OffLevel_High == TRUE

\* the level l.18 writes
OffLevel == FALSE

\* l.14
BlinkPrintOn ==
    /\ script = "blink" /\ pc = 14
    /\ Len(Labels) < MaxLabels
    /\ log' = Append(log, Stdwrite(<<"on...">>))
    /\ Goto(15)
    /\ UNCHANGED <<script, blinkVars, checkVars, lpsVars>>

\* l.15
BlinkSetOn ==
    /\ script = "blink" /\ pc = 15
    /\ led_value' = OnLevel
    /\ log' = Append(log, Call("led.value", Level(OnLevel)))
    /\ Goto(16)
    /\ UNCHANGED <<script, led, led_direction, checkVars, lpsVars>>

\* l.16: time.sleep(5) returns
BlinkSleepOn ==
    /\ script = "blink" /\ pc = 16
    /\ log' = Append(log, Event("sleep", <<>>, <<5000>>))
    /\ Goto(17)
    /\ UNCHANGED <<script, blinkVars, checkVars, lpsVars>>

\* mutant: l.17 prints the label of l.14
BlinkPrintOff_On ==
    /\ script = "blink" /\ pc = 17
    /\ Len(Labels) < MaxLabels
    /\ log' = Append(log, Stdwrite(<<"on...">>))
    /\ Goto(18)
    /\ UNCHANGED <<script, blinkVars, checkVars, lpsVars>>

\* l.17
BlinkPrintOff ==
    /\ script = "blink" /\ pc = 17
    /\ Len(Labels) < MaxLabels
    /\ log' = Append(log, Stdwrite(<<"off...">>))
    /\ Goto(18)
    /\ UNCHANGED <<script, blinkVars, checkVars, lpsVars>>

\* l.18
BlinkSetOff ==
    /\ script = "blink" /\ pc = 18
    /\ led_value' = OffLevel
    /\ log' = Append(log, Call("led.value", Level(OffLevel)))
    /\ Goto(19)
    /\ UNCHANGED <<script, led, led_direction, checkVars, lpsVars>>

\* l.19: time.sleep(1) returns, back to the loop head
BlinkSleepOff ==
    /\ script = "blink" /\ pc = 19
    /\ log' = Append(log, Event("sleep", <<>>, <<1000>>))
    /\ Goto(14)
    /\ UNCHANGED <<script, blinkVars, checkVars, lpsVars>>

(***************************************************************************)
(* lps25.py                                                                *)
(***************************************************************************)
\* a naive local datetime, sec seconds into the month
DateTime(sec, usec) ==
    [year |-> 2026, month |-> 11, day |-> 1 + sec \div 86400,
     hour |-> (sec % 86400) \div 3600, minute |-> (sec % 3600) \div 60,
     second |-> sec % 60, microsecond |-> usec]

\* the wall-clock samples, in chronological order of k: they straddle the
\* change from the 9th to the 10th day of the month
ClockAt(k) == DateTime(8 * 86400 + 86398 + k, (k * 700001) % 1000000)

\* what datetime.datetime.now() may return: the local wall clock may be
\* stepped (DST, NTP, the operator), so any sample may follow any other
ClockSamples == {ClockAt(k) : k \in 0..MaxClock}

Fields(dt) ==
    <<dt.year, dt.month, dt.day, dt.hour, dt.minute, dt.second, dt.microsecond>>

RECURSIVE LexLeq(_, _)
\* lexicographic order of two sequences of numbers
LexLeq(a, b) ==
    IF a = <<>> THEN TRUE
    ELSE IF b = <<>> THEN FALSE
    ELSE IF Head(a) # Head(b) THEN Head(a) < Head(b)
    ELSE LexLeq(Tail(a), Tail(b))

\* datetime a is not later than datetime b
DtLeq(a, b) == LexLeq(Fields(a), Fields(b))

\* mutant: the fields are not padded
Field_NoPad(n, width) == Str(n)

\* one field of the format, zero-padded to its width
Field(n, width) == ZeroPad(n, width)

\* l.15: strftime("%Y-%m-%dT%H:%M:%S.%f")
Strftime(dt) ==
    Field(dt.year, 4) \o <<"-">> \o Field(dt.month, 2) \o <<"-">> \o Field(dt.day, 2)
    \o <<"T">> \o Field(dt.hour, 2) \o <<":">> \o Field(dt.minute, 2)
    \o <<":">> \o Field(dt.second, 2) \o <<".">> \o Field(dt.microsecond, 6)

\* the sensor readings: floats, here multiples of a quarter hPa
Readings == {4052 + k : k \in 0..MaxReading}

\* str() of the float q/4, as the f-string of l.16 formats it
Repr(q) ==
    Str(q \div 4) \o <<".">> \o
    (CASE q % 4 = 0 -> <<"0">>
       [] q % 4 = 1 -> <<"2", "5">>
       [] q % 4 = 2 -> <<"5">>
       [] q % 4 = 3 -> <<"7", "5">>)

DataLine(ts, q) == ts \o <<";">> \o Repr(q)

Header == <<"time;pressure">>

\* the data lines printed so far
DataLines == SelectSeq(Stdout, LAMBDA e : e.line # Header)

\* l.9
LpsI2C ==
    /\ script = "lps" /\ pc = 9
    /\ log' = Append(log, Call("busio.I2C", <<>>))
    /\ \E ok \in BOOLEAN :
          IF ok THEN /\ i2c' = TRUE
                     /\ Goto(10)
                ELSE /\ Raise(Exception("ValueError", "no I2C device"))
                     /\ UNCHANGED i2c
    /\ UNCHANGED <<script, lps, now, wall, checkVars, blinkVars>>

\* l.10
LpsSensor ==
    /\ script = "lps" /\ pc = 10
    /\ log' = Append(log, Call("adafruit_lps2x.LPS25", <<>>))
    /\ \E ok \in BOOLEAN :
          IF ok THEN /\ lps' = TRUE
                     /\ Goto(12)
                ELSE /\ Raise(Exception("RuntimeError", "failed to find LPS25"))
                     /\ UNCHANGED lps
    /\ UNCHANGED <<script, i2c, now, wall, checkVars, blinkVars>>

\* l.12
LpsHeader ==
    /\ script = "lps" /\ pc = 12
    /\ log' = Append(log, Stdwrite(Header))
    /\ Goto(15)
    /\ UNCHANGED <<script, lpsVars, checkVars, blinkVars>>

\* l.15: wall records the datetimes the clock returned
LpsNow ==
    /\ script = "lps" /\ pc = 15
    /\ Len(DataLines) < MaxLines
    /\ \E dt \in ClockSamples :
          /\ now' = Strftime(dt)
          /\ wall' = Append(wall, dt)
    /\ log' = Append(log, Call("datetime.now", <<>>))
    /\ Goto(16)
    /\ UNCHANGED <<script, i2c, lps, checkVars, blinkVars>>

\* mutant: the line is printed without reading the sensor
LpsPrint_NoRead ==
    /\ script = "lps" /\ pc = 16
    /\ \E q \in Readings :
          /\ log' = Append(log, Stdwrite(DataLine(now, q)))
          /\ Goto(17)
    /\ UNCHANGED <<script, lpsVars, checkVars, blinkVars>>

\* l.16: the f-string reads lps.pressure, then the line is printed
LpsPrint ==
    /\ script = "lps" /\ pc = 16
    /\ LET read == Append(log, Call("lps.pressure", <<>>)) IN
       \/ \E q \in Readings :
             /\ log' = Append(read, Stdwrite(DataLine(now, q)))
             /\ Goto(17)
       \/ /\ log' = read
          /\ Raise(Exception("OSError", "[Errno 121] Remote I/O error"))
    /\ UNCHANGED <<script, lpsVars, checkVars, blinkVars>>

\* mutant: the loop starts over at the header
LpsSleep_ToHeader ==
    /\ script = "lps" /\ pc = 17
    /\ log' = Append(log, Event("sleep", <<>>, <<200>>))
    /\ Goto(12)
    /\ UNCHANGED <<script, lpsVars, checkVars, blinkVars>>

\* l.17: time.sleep(0.2) returns, back to the loop head
LpsSleep ==
    /\ script = "lps" /\ pc = 17
    /\ log' = Append(log, Event("sleep", <<>>, <<200>>))
    /\ Goto(15)
    /\ UNCHANGED <<script, lpsVars, checkVars, blinkVars>>

(***************************************************************************)
(* The specification.                                                      *)
(***************************************************************************)
\* the first statement of each script
FirstLine(s) == CASE s = "blink" -> 10 [] s = "check" -> 4 [] s = "lps" -> 9

Init ==
    /\ script \in Scripts
    /\ pc = FirstLine(script)
    /\ exitCode = Running
    /\ uncaught = FALSE
    /\ raised = NoException
    /\ log = <<>>
    /\ devices = <<>>
    /\ idx = 0
    /\ foundDevice = FALSE
    /\ handle = "none"
    /\ led = FALSE
    /\ led_direction = "INPUT"
    /\ led_value = FALSE
    /\ i2c = FALSE
    /\ lps = FALSE
    /\ now = <<>>
    /\ wall = <<>>

Next ==
    \/ CheckProbing
    \/ CheckInitFound
    \/ CheckEnumerate
    \/ CheckLoopBody
    \/ CheckNotFound
    \/ CheckOpen
    \/ CheckDone
    \/ BlinkAcquire
    \/ BlinkDirection
    \/ BlinkPrintOn
    \/ BlinkSetOn
    \/ BlinkSleepOn
    \/ BlinkPrintOff
    \/ BlinkSetOff
    \/ BlinkSleepOff
    \/ LpsI2C
    \/ LpsSensor
    \/ LpsHeader
    \/ LpsNow
    \/ LpsPrint
    \/ LpsSleep

Spec == Init /\ [][Next]_vars

(***************************************************************************)
(* Properties of blinka_check.py                                           *)
(***************************************************************************)
\* the text of the i-th line of stdout
LineAt(i) == Stdout[i].line

\* the printed lines, as a sequence of lines
Lines == [i \in 1..Len(Stdout) |-> LineAt(i)]

Printed(line) == \E i \in 1..Len(Stdout) : LineAt(i) = line

IsFoundLine(line) == line[1] = "OK: Found Adafruit device with product ID "

IsFailedLine(line) == line[1] = "Failed to open device: "

\* hid.enumerate() has returned
Enumerated == script = "check" /\ \E i \in 1..Len(log) : log[i].line = <<"hid.enumerate">>

\* the enumerated records of the vendor 0x04D8, in enumeration order
Matches == SelectSeq(devices, LAMBDA d : d.vendor_id = 1240)

\* the positions in log of the calls of device.open
OpenCalls == {i \in 1..Len(log) : log[i].line = <<"device.open">>}

\* the line reporting the i-th match: the product id in decimal
ExpectedFound(i) ==
    <<"OK: Found Adafruit device with product ID ">>
    \o (IF Matches[i].product_id = 221 THEN <<"2", "2", "1">> ELSE <<"2", "3", "4">>)
    \o <<"!">>

ExpectedFoundLines == [i \in 1..Len(Matches) |-> ExpectedFound(i)]

\* C1: when the enumeration holds no record of vendor 0x04D8 (the empty
\* enumeration included), the run never calls device.open, never prints a
\* 'Found', 'Successfully opened' or 'Done.' line, can only be in the loop, at
\* the found-check or terminated, and when it has terminated it has printed the
\* 'could not find' message as its last line and exited with status 1.
C1_NoMatchExitsOne ==
    (Enumerated /\ Matches = <<>>) =>
        /\ OpenCalls = {}
        /\ \A i \in 1..Len(Stdout) : ~IsFoundLine(LineAt(i))
        /\ ~Printed(<<"OK: Successfully opened device.">>)
        /\ ~Printed(<<"Done.">>)
        /\ pc \in {10, 14, 0}
        /\ pc = 0 =>
              /\ exitCode = 1
              /\ ~uncaught
              /\ Lines = <<<<"Probing for Adafruit USB devices...">>,
                           <<"Error: could not find Adafruit device(s).">>>>

\* a run over a non-empty enumeration without a vendor match has terminated
C1_Witness ==
    /\ Enumerated /\ Matches = <<>> /\ Len(devices) >= 1
    /\ pc = 0 /\ exitCode = 1
    /\ Printed(<<"Error: could not find Adafruit device(s).">>)

\* C2: when the enumeration holds k >= 1 records of vendor 0x04D8 and
\* device.open succeeded, stdout is the probing line, then exactly one 'Found'
\* line per matching record, in enumeration order and with that record's
\* product id, then the 'Successfully opened device' line (then 'Done.' once
\* the run has ended), and the run ends with status 0.
C2_MatchAndOpenExitsZero ==
    (script = "check" /\ handle = "open") =>
        /\ Len(Matches) >= 1
        /\ Lines = <<<<"Probing for Adafruit USB devices...">>>>
                   \o ExpectedFoundLines
                   \o <<<<"OK: Successfully opened device.">>>>
                   \o (IF pc = 0 THEN <<<<"Done.">>>> ELSE <<>>)
        /\ pc \in {26, 0}
        /\ pc = 0 => (exitCode = 0 /\ ~uncaught)

\* a successful run over two matching records and (MaxDevices permitting) one
\* record of another vendor
C2_Witness ==
    /\ script = "check" /\ handle = "open" /\ pc = 0 /\ exitCode = 0
    /\ Len(Matches) >= 2
    /\ Matches[1].product_id # Matches[2].product_id

\* C3: when device.open raised an OSError, the run has printed, as its last
\* line, the 'Failed to open device' message holding the error's text, has
\* exited with status 1, and has printed neither 'Successfully opened device'
\* nor 'Done.'.
C3_OSErrorReported ==
    (script = "check" /\ raised.kind = "OSError") =>
        /\ Len(Matches) >= 1
        /\ pc = 0 /\ exitCode = 1
        /\ LineAt(Len(Stdout)) = <<"Failed to open device: ", raised.text>>
        /\ ~Printed(<<"OK: Successfully opened device.">>)
        /\ ~Printed(<<"Done.">>)

C3_Witness ==
    /\ script = "check" /\ raised = Exception("OSError", "open failed")
    /\ pc = 0 /\ Len(Matches) >= 1

\* C4 as claimed: whatever device.open raised, the prober has printed its
\* 'Failed to open device' message with the error's text and exited non-zero
\* by itself.
C4_AnyFailureReported ==
    (script = "check" /\ raised # NoException) =>
        /\ pc = 0 /\ exitCode # 0 /\ exitCode # Running
        /\ ~uncaught
        /\ LineAt(Len(Stdout)) = <<"Failed to open device: ", raised.text>>

\* C4 amended: a failure of device.open ends the run with status 1; the
\* prober prints its 'Failed to open device' message exactly when the error
\* is an OSError, and any other exception leaves the script uncaught, without
\* that message.
C4_OnlyOSErrorReported ==
    (script = "check" /\ raised # NoException) =>
        /\ pc = 0 /\ exitCode = 1
        /\ (raised.kind = "OSError") <=> ~uncaught
        /\ (raised.kind = "OSError")
             <=> LineAt(Len(Stdout)) = <<"Failed to open device: ", raised.text>>
        /\ (raised.kind # "OSError")
             => \A i \in 1..Len(Stdout) : ~IsFailedLine(LineAt(i))

\* device.open raised an exception that is not an OSError
C4_Witness ==
    /\ script = "check" /\ raised.kind = "ValueError" /\ pc = 0
    /\ OpenCalls # {}

\* C9: device.open is called at most once per run, only after the loop over
\* the enumeration has ended and every match has been reported, and always
\* with the pair (0x04D8, 0x00DD), whatever product ids were enumerated.
C9_OpenOnceFixedPair ==
    script = "check" =>
        /\ Cardinality(OpenCalls) <= 1
        /\ \A i \in OpenCalls :
              /\ log[i].args = <<1240, 221>>
              /\ idx = Len(devices) + 1
              /\ SelectSeq(SubSeq(log, 1, i), LAMBDA e : e.op = "print" /\ IsFoundLine(e.line))
                    = [k \in 1..Len(Matches) |-> Stdwrite(ExpectedFound(k))]
              /\ \A j \in (i + 1)..Len(log) : ~IsFoundLine(log[j].line)

\* no enumerated match has product id 0x00DD, and the open was attempted,
\* succeeded and the run exited 0
C9_Witness ==
    /\ script = "check" /\ pc = 0 /\ exitCode = 0 /\ handle = "open"
    /\ Len(Matches) >= 1
    /\ \A i \in 1..Len(Matches) : Matches[i].product_id # 221
    /\ OpenCalls # {}

(***************************************************************************)
(* Properties of blinka_blink.py                                           *)
(***************************************************************************)
IsLabel(e) == e.op = "print" /\ e.line \in {<<"on...">>, <<"off...">>}

IsWrite(e) == e.op = "call" /\ e.line = <<"led.value">>

IsSleep(e) == e.op = "sleep"

\* C5: once the pin has been acquired, the printed labels alternate 'on...',
\* 'off...', 'on...', ... starting with 'on...', so no two consecutive labels
\* are equal, nothing else is printed, and the run does not terminate.
C5_LabelsAlternate ==
    (script = "blink" /\ led) =>
        /\ \A i \in 1..Len(Stdout) :
              LineAt(i) = IF i % 2 = 1 THEN <<"on...">> ELSE <<"off...">>
        /\ \A i \in 1..(Len(Stdout) - 1) : LineAt(i) # LineAt(i + 1)
        /\ pc # 0 /\ exitCode = Running /\ ~uncaught

\* the loop has gone round once and printed 'on...' a second time
C5_Witness ==
    /\ script = "blink" /\ led
    /\ Len(Stdout) >= 3
    /\ LineAt(3) = <<"on...">>

\* C8: a pin write directly follows the print of its label and writes the
\* level the label names; while the run sleeps at l.16 the last label is
\* 'on...' and the pin is high, while it sleeps at l.19 the last label is
\* 'off...' and the pin is low; and between two consecutive labels there is
\* exactly one pin write (label, write, sleep, label).
C8_PinFollowsLabel ==
    script = "blink" =>
        /\ \A i \in 1..Len(log) :
              IsWrite(log[i]) =>
                 /\ i > 1 /\ IsLabel(log[i - 1])
                 /\ log[i].args = IF log[i - 1].line = <<"on...">> THEN <<1>> ELSE <<0>>
        /\ \A i \in 1..Len(log) :
              (IsLabel(log[i]) /\ \E j \in 1..(i - 1) : IsLabel(log[j])) =>
                 /\ i > 3
                 /\ IsSleep(log[i - 1]) /\ IsWrite(log[i - 2]) /\ IsLabel(log[i - 3])
        /\ pc = 16 => (led_value = TRUE /\ LineAt(Len(Stdout)) = <<"on...">>)
        /\ pc = 19 => (led_value = FALSE /\ LineAt(Len(Stdout)) = <<"off...">>)
        /\ \A i \in 1..Len(log) :
              IsSleep(log[i]) =>
                 log[i].args = IF log[i - 1].args = <<1>> THEN <<5000>> ELSE <<1000>>

\* the run sleeps after 'off...' with the pin low, having been high before
C8_Witness ==
    /\ script = "blink" /\ pc = 19 /\ led_value = FALSE
    /\ Len(Stdout) >= 2
    /\ \E i \in 1..Len(log) : IsWrite(log[i]) /\ log[i].args = <<1>>

(***************************************************************************)
(* Properties of lps25.py                                                  *)
(***************************************************************************)
\* position in log of the k-th call of the library function name, 0 if none
CallsOf(name) == {i \in 1..Len(log) : log[i].op = "call" /\ log[i].line = <<name>>}

HeaderPrints == {i \in 1..Len(log) : log[i] = Stdwrite(<<"time;pressure">>)}

\* C6: the header 'time;pressure' is printed at most once, and exactly once in
\* every run that reaches the loop; it is the first line of stdout; it is
\* printed after busio.I2C and adafruit_lps2x.LPS25 have returned the handles;
\* every other line is printed after it.
C6_HeaderOnceFirst ==
    script = "lps" =>
        /\ Cardinality(HeaderPrints) <= 1
        /\ pc \in {15, 16, 17} => Cardinality(HeaderPrints) = 1
        /\ Stdout # <<>> => LineAt(1) = <<"time;pressure">>
        /\ \A h \in HeaderPrints :
              /\ i2c /\ lps
              /\ \E a \in CallsOf("busio.I2C") : a < h
              /\ \E b \in CallsOf("adafruit_lps2x.LPS25") : b < h
              /\ \A j \in 1..Len(log) : (log[j].op = "print" /\ j # h) => j > h

\* two data lines have followed the header
C6_Witness ==
    /\ script = "lps" /\ Len(Stdout) >= 3
    /\ LineAt(1) = <<"time;pressure">>
    /\ LineAt(2) # <<"time;pressure">>

RECURSIVE Before(_, _)
\* the tokens of a line that precede its first ';'
Before(line, sep) ==
    IF line = <<>> \/ Head(line) = sep THEN <<>>
    ELSE <<Head(line)>> \o Before(Tail(line), sep)

\* the timestamp of the i-th data line
TimestampAt(i) == Before(DataLines[i].line, ";")

Codes(str) == [i \in 1..Len(str) |-> Ord(str[i])]

\* string comparison s <= t, as Python compares str
StrLeq(s, t) == LexLeq(Codes(s), Codes(t))

\* C7 as claimed: the timestamps of any two consecutive data lines are
\* non-decreasing, whatever the wall clock does.
C7_TimestampsNonDecreasing ==
    script = "lps" =>
        \A i \in 1..(Len(DataLines) - 1) : StrLeq(TimestampAt(i), TimestampAt(i + 1))

\* C7 amended: every data line carries the wall-clock value read in its own
\* iteration, so the timestamps of two consecutive data lines are
\* non-decreasing whenever the wall clock did not go back between the two
\* reads, and decrease when the wall clock was set back.
C7_TimestampsFollowClock ==
    script = "lps" =>
        /\ Len(wall) >= Len(DataLines)
        /\ \A i \in 1..(Len(DataLines) - 1) :
              /\ DtLeq(wall[i], wall[i + 1]) => StrLeq(TimestampAt(i), TimestampAt(i + 1))
              /\ ~DtLeq(wall[i], wall[i + 1]) => ~StrLeq(TimestampAt(i), TimestampAt(i + 1))

\* two consecutive data lines, read across midnight, the clock going forward
C7_Witness ==
    /\ script = "lps" /\ Len(DataLines) >= 2
    /\ wall[1].day < wall[2].day
    /\ TimestampAt(1) # TimestampAt(2)

\* position of the header in log (0 before it is printed)
HeaderAt == IF HeaderPrints = {} THEN 0 ELSE CHOOSE h \in HeaderPrints : TRUE

IsDataPrint(e) == e.op = "print" /\ e.line # <<"time;pressure">>

IsClockRead(e) == e = Call("datetime.now", <<>>)

IsSensorRead(e) == e = Call("lps.pressure", <<>>)

\* C10 as claimed: in every iteration the sensor is read, then the timestamp
\* is taken, then the line is printed.
C10_ReadThenTimestamp ==
    script = "lps" =>
        \A i \in 1..Len(log) :
            IsDataPrint(log[i]) =>
               /\ i > 2 /\ IsSensorRead(log[i - 2]) /\ IsClockRead(log[i - 1])

\* C10 amended: in every iteration the timestamp is taken and formatted
\* first, then the sensor is read, then one 'timestamp;value' line is printed,
\* then the run sleeps: after the header the trace repeats (clock read, sensor
\* read, print, sleep), so each iteration has exactly one sensor read and
\* exactly one data line.
C10_TimestampThenRead ==
    script = "lps" =>
        LET h == HeaderAt IN
        /\ \A i \in 1..Len(log) :
              (h > 0 /\ i > h) =>
                 CASE (i - h) % 4 = 1 -> IsClockRead(log[i])
                   [] (i - h) % 4 = 2 -> IsSensorRead(log[i])
                   [] (i - h) % 4 = 3 -> IsDataPrint(log[i])
                   [] (i - h) % 4 = 0 -> log[i] = Event("sleep", <<>>, <<200>>)
        /\ \A i \in 1..Len(log) :
              (IsClockRead(log[i]) \/ IsSensorRead(log[i]) \/ IsDataPrint(log[i]))
                 => (h > 0 /\ i > h)

\* the second iteration has printed its line
C10_Witness ==
    /\ script = "lps" /\ Len(DataLines) >= 2 /\ pc = 17

====
